---- MODULE Spec2Model ----
(***************************************************************************)
(* Model of utils/send_data.py: send_track_data (summarise one track of a  *)
(* recording session, open its crop images, upload them) and               *)
(* post_with_retry (requests.Session with an HTTPAdapter whose max_retries *)
(* is urllib3's Retry(total=5, backoff_factor=0.1, status_forcelist=...)). *)
(*                                                                         *)
(* It also models yolov5_preview.py: frame_norm and the preview loop that  *)
(* takes frames and detections from the two output queues of the device.   *)
(* The three parts have a specification each (Spec, SpecNorm, SpecPreview) *)
(* over one set of variables; the parts a specification does not run stay  *)
(* in their initial state.                                                 *)
(*                                                                         *)
(* Strings are sequences of one-character strings, so that split, min/max  *)
(* of strings, strftime and strptime are computed character by character.  *)
(* Time is counted in tenths of a second for the backoff waits.            *)
(***************************************************************************)
EXTENDS Integers, Sequences, FiniteSets, TLC

\* ------------------------------------------------------------------ bounds
\* Largest number of rows of the session's metadata table.
MaxRows == 3

\* Messages the device puts on each of its two streams during a preview.
MaxSent == 5

\* Iterations of the preview loop that are followed.
MaxIter == 3

\* Longest wait for a detection message, in clock ticks.
MaxTick == 2

\* ------------------------------------------------------------ characters
Digit == <<"0", "1", "2", "3", "4", "5", "6", "7", "8", "9">>

IsDigit(c) == \E i \in 1..10 : Digit[i] = c

\* Value of a digit character.
DigitVal(c) == (CHOOSE i \in 1..10 : Digit[i] = c) - 1

\* Code point of the characters a timestamp can hold (Python compares
\* strings by code point).
Ord(c) ==
    CASE c = "-" -> 45
      [] c = "." -> 46
      [] IsDigit(c) -> 48 + DigitVal(c)
      [] c = ":" -> 58
      [] c = "T" -> 84
      [] OTHER -> 0

\* a < b for Python strings: the first differing character decides, a
\* proper prefix is smaller.
RECURSIVE StrLess(_, _)
StrLess(a, b) ==
    IF b = <<>> THEN FALSE
    ELSE IF a = <<>> THEN TRUE
    ELSE IF Head(a) = Head(b) THEN StrLess(Tail(a), Tail(b))
    ELSE Ord(Head(a)) < Ord(Head(b))

\* Series.min() / Series.max() of a column of strings.
StrMin(S) == CHOOSE x \in S : \A y \in S : x = y \/ StrLess(x, y)

StrMax(S) == CHOOSE x \in S : \A y \in S : x = y \/ StrLess(y, x)

\* str(n) of a natural number.
RECURSIVE str(_)
str(n) == IF n < 10 THEN <<Digit[n + 1]>> ELSE str(n \div 10) \o <<Digit[(n % 10) + 1]>>

\* n written with exactly w digits (the zero padded fields of strftime).
RECURSIVE Pad(_, _)
Pad(n, w) == IF w = 0 THEN <<>> ELSE Pad(n \div 10, w - 1) \o <<Digit[(n % 10) + 1]>>

\* int(s) of a string of digits.
RECURSIVE ParseNat(_)
ParseNat(s) ==
    IF s = <<>> THEN 0 ELSE 10 * ParseNat(SubSeq(s, 1, Len(s) - 1)) + DigitVal(s[Len(s)])

AllDigits(s) == \A i \in 1..Len(s) : IsDigit(s[i])

\* f.split('_'): the pieces between underscores, empty pieces included.
RECURSIVE split(_)
split(f) ==
    IF \A i \in 1..Len(f) : f[i] # "_" THEN <<f>>
    ELSE LET k == CHOOSE i \in 1..Len(f) :
                      f[i] = "_" /\ \A j \in 1..(i - 1) : f[j] # "_"
         IN <<SubSeq(f, 1, k - 1)>> \o split(SubSeq(f, k + 1, Len(f)))

\* sub in s for two strings: sub occurs somewhere inside s.
Contains(s, sub) ==
    \E i \in 1..(Len(s) + 1) :
        i + Len(sub) - 1 <= Len(s) /\ SubSeq(s, i, i + Len(sub) - 1) = sub

\* x in lst for a list.
InList(x, lst) == \E i \in 1..Len(lst) : lst[i] = x

\* ------------------------------------------------------------- datetimes
\* The format string of both strptime calls: '%Y-%m-%dT%H:%M:%S.%f'.
strftime(d) ==
    Pad(d.year, 4) \o <<"-">> \o Pad(d.month, 2) \o <<"-">> \o Pad(d.day, 2) \o <<"T">>
    \o Pad(d.hour, 2) \o <<":">> \o Pad(d.minute, 2) \o <<":">> \o Pad(d.second, 2)
    \o <<".">> \o Pad(d.microsecond, 6)

is_leap(y) == y % 4 = 0 /\ (y % 100 # 0 \/ y % 400 = 0)

days_in_month(y, m) ==
    IF m = 2 THEN (IF is_leap(y) THEN 29 ELSE 28)
    ELSE IF m \in {4, 6, 9, 11} THEN 30 ELSE 31

days_before_year(y) == (y - 1) * 365 + (y - 1) \div 4 - (y - 1) \div 100 + (y - 1) \div 400

RECURSIVE days_before_month(_, _)
days_before_month(y, m) ==
    IF m = 1 THEN 0 ELSE days_before_month(y, m - 1) + days_in_month(y, m - 1)

\* datetime.toordinal(): the day number, 1 for 0001-01-01.
toordinal(d) == days_before_year(d.year) + days_before_month(d.year, d.month) + d.day

\* %f takes one to six digits and pads them on the right.
RECURSIVE PadRight(_, _)
PadRight(s, w) == IF Len(s) >= w THEN s ELSE PadRight(s \o <<"0">>, w)

\* datetime.strptime(s, '%Y-%m-%dT%H:%M:%S.%f') for strings whose date and
\* time fields are written with two digits (four for the year): ok is
\* FALSE where strptime raises ValueError.
strptime(s) ==
    LET shaped ==
            /\ Len(s) \in 21..26
            /\ s[5] = "-" /\ s[8] = "-" /\ s[11] = "T"
            /\ s[14] = ":" /\ s[17] = ":" /\ s[20] = "."
            /\ AllDigits(SubSeq(s, 1, 4)) /\ AllDigits(SubSeq(s, 6, 7))
            /\ AllDigits(SubSeq(s, 9, 10)) /\ AllDigits(SubSeq(s, 12, 13))
            /\ AllDigits(SubSeq(s, 15, 16)) /\ AllDigits(SubSeq(s, 18, 19))
            /\ AllDigits(SubSeq(s, 21, Len(s)))
        d == [year |-> ParseNat(SubSeq(s, 1, 4)),
              month |-> ParseNat(SubSeq(s, 6, 7)),
              day |-> ParseNat(SubSeq(s, 9, 10)),
              hour |-> ParseNat(SubSeq(s, 12, 13)),
              minute |-> ParseNat(SubSeq(s, 15, 16)),
              second |-> ParseNat(SubSeq(s, 18, 19)),
              microsecond |-> ParseNat(PadRight(SubSeq(s, 21, Len(s)), 6))]
        inRange ==
            /\ d.year >= 1
            /\ d.month \in 1..12
            /\ d.day >= 1 /\ d.day <= days_in_month(d.year, d.month)
            /\ d.hour <= 23 /\ d.minute <= 59 /\ d.second <= 59
    IN IF shaped /\ inRange THEN [ok |-> TRUE, dt |-> d]
       ELSE [ok |-> FALSE, dt |-> s]

\* timedelta(days, seconds, microseconds): carries are normalised so that
\* 0 <= seconds < 86400 and 0 <= microseconds < 1000000.
timedelta(days, seconds, microseconds) ==
    LET s1 == seconds + microseconds \div 1000000
    IN [days |-> days + s1 \div 86400,
        seconds |-> s1 % 86400,
        microseconds |-> microseconds % 1000000]

\* end_date - start_date of two datetimes.
datetime_sub(a, b) ==
    timedelta(toordinal(a) - toordinal(b),
              (a.second + a.minute * 60 + a.hour * 3600)
                  - (b.second + b.minute * 60 + b.hour * 3600),
              a.microsecond - b.microsecond)

\* int(td.total_seconds()): int() truncates towards zero.
int_total_seconds_rounded(td) ==
    td.days * 86400 + td.seconds + (IF td.microseconds >= 500000 THEN 1 ELSE 0)

int_total_seconds(td) ==
    LET whole == td.days * 86400 + td.seconds
    IN IF whole < 0 /\ td.microseconds > 0 THEN whole + 1 ELSE whole

\* ------------------------------------------------------ the input domain
dt(y, mo, d, h, mi, sec, us) ==
    [year |-> y, month |-> mo, day |-> d, hour |-> h, minute |-> mi,
     second |-> sec, microsecond |-> us]

\* Observation instants of the recordings.
Instants ==
    {dt(2023, 12, 31, 23, 59, 59, 900000),
     dt(2024, 1, 1, 10, 0, 0, 0),
     dt(2024, 1, 1, 10, 0, 5, 500000)}

\* A timestamp that lacks its fraction, "2024-01-01T10:00:03".
Malformed == {SubSeq(strftime(dt(2024, 1, 1, 10, 0, 3, 0)), 1, 19)}

\* The values the timestamp column can hold.
Timestamps == {strftime(d) : d \in Instants} \cup Malformed

TrackIds == {1, 10}

Rows == [track_ID : TrackIds, timestamp : Timestamps]

\* The metadata tables: sequences of at most MaxRows rows.
Tables == UNION {[1..n -> Rows] : n \in 0..MaxRows}

RECURSIVE Join(_)
Join(tokens) ==
    IF Len(tokens) = 1 THEN tokens[1] ELSE tokens[1] \o <<"_">> \o Join(Tail(tokens))

\* The crop images, each given by the underscore separated tokens of its
\* name: img_ID1_001.jpg, img_ID10_001.jpg and img_ID1.jpg.
NameTokens ==
    {<< <<"i", "m", "g">>, <<"I", "D", "1">>, <<"0", "0", "1", ".", "j", "p", "g">> >>,
     << <<"i", "m", "g">>, <<"I", "D", "1", "0">>, <<"0", "0", "1", ".", "j", "p", "g">> >>,
     << <<"i", "m", "g">>, <<"I", "D", "1", ".", "j", "p", "g">> >>}

FileNames == {Join(t) : t \in NameTokens}

\* The schemes CLASSIFICATION_ENDPOINT can start with.
Schemes == {"https://", "http://"}

\* Status codes the classification service answers with.
Statuses == {200, 401, 403, 404, 429, 500, 502, 503, 504}

\* What one transmission of the POST can end in: a response, a failure to
\* connect (the server did not receive the request), or a failure while
\* reading the answer (the server began processing it).
Outcomes ==
    [kind : {"response"}, status : Statuses] \cup [kind : {"connect", "read"}, status : {0}]

\* ------------------------------------------- send_track_data, lines 38-57
NoPayload == [start_date |-> <<>>, end_date |-> <<>>, duration_s |-> 0, built |-> FALSE]

\* metadata[metadata['track_ID'] == track_id]
track_data_of(md, tid) == SelectSeq(md, LAMBDA r : r.track_ID = tid)

\* track_data['timestamp'] as the set of its values.
timestamp_column(td) == {td[i].timestamp : i \in 1..Len(td)}

\* f'ID{track_id}' in f.split('_')
is_track_file_substring(f, tid) == Contains(f, <<"I", "D">> \o str(tid))

is_track_file(f, tid) == InList(<<"I", "D">> \o str(tid), split(f))

\* The straight-line code from the existence test to the payload: what
\* it returns early with, whether os.listdir was called, the payload and
\* the files of the track.
summarize_listing_first(tid, exists, md, dir) ==
    LET td == track_data_of(md, tid)
        lo == strptime(StrMin(timestamp_column(td)))
        hi == strptime(StrMax(timestamp_column(td)))
        tf == {f \in dir : is_track_file(f, tid)}
    IN IF ~exists \/ td = <<>>
       THEN [outcome |-> "absent", listed |-> TRUE, payload |-> NoPayload, track_files |-> tf]
       ELSE IF ~lo.ok \/ ~hi.ok
       THEN [outcome |-> "ValueError", listed |-> TRUE, payload |-> NoPayload,
             track_files |-> tf]
       ELSE [outcome |-> "summary", listed |-> TRUE,
             payload |-> [start_date |-> lo.dt, end_date |-> hi.dt,
                          duration_s |-> int_total_seconds(datetime_sub(hi.dt, lo.dt)),
                          built |-> TRUE],
             track_files |-> tf]

summarize_parsing_every_row(tid, exists, md, dir) ==
    LET td == track_data_of(md, tid)
        lo == strptime(StrMin(timestamp_column(td)))
        hi == strptime(StrMax(timestamp_column(td)))
    IN IF ~exists \/ td = <<>>
       THEN [outcome |-> "absent", listed |-> FALSE, payload |-> NoPayload, track_files |-> {}]
       ELSE IF \E i \in 1..Len(td) : ~strptime(td[i].timestamp).ok
       THEN [outcome |-> "ValueError", listed |-> FALSE, payload |-> NoPayload,
             track_files |-> {}]
       ELSE [outcome |-> "summary", listed |-> TRUE,
             payload |-> [start_date |-> lo.dt, end_date |-> hi.dt,
                          duration_s |-> int_total_seconds(datetime_sub(hi.dt, lo.dt)),
                          built |-> TRUE],
             track_files |-> {f \in dir : is_track_file(f, tid)}]

summarize(tid, exists, md, dir) ==
    LET td == track_data_of(md, tid)
        lo == strptime(StrMin(timestamp_column(td)))
        hi == strptime(StrMax(timestamp_column(td)))
    IN IF ~exists \/ td = <<>>
       THEN [outcome |-> "absent", listed |-> FALSE, payload |-> NoPayload, track_files |-> {}]
       ELSE IF ~lo.ok \/ ~hi.ok
       THEN [outcome |-> "ValueError", listed |-> FALSE, payload |-> NoPayload,
             track_files |-> {}]
       ELSE [outcome |-> "summary", listed |-> TRUE,
             payload |-> [start_date |-> lo.dt, end_date |-> hi.dt,
                          duration_s |-> int_total_seconds(datetime_sub(hi.dt, lo.dt)),
                          built |-> TRUE],
             track_files |-> {f \in dir : is_track_file(f, tid)}]

\* ------------------------------------------ post_with_retry, lines 16-30
\* Retry(total=5, ...)
Retry_total == 5

\* backoff_factor=0.1, in tenths of a second.
backoff_factor == 1

\* status_forcelist=[429, 500, 502, 503, 504]
status_forcelist == {429, 500, 502, 503, 504}

\* Retry's allowed_methods, which the call leaves at urllib3's default.
allowed_methods == {"HEAD", "GET", "PUT", "DELETE", "OPTIONS", "TRACE"}

\* Retry's cap on one backoff (120 s), in tenths of a second.
BACKOFF_MAX == 1200

\* The Retry object of the adapter mounted for "https://" (line 30).
configured_retry ==
    [total |-> Retry_total, read |-> "None", backoff_factor |-> backoff_factor,
     status_forcelist |-> status_forcelist, allowed_methods |-> allowed_methods,
     history |-> 0]

\* The Retry object of the adapter a new Session keeps for "http://":
\* HTTPAdapter() has max_retries = Retry(0, read=False).
default_retry ==
    [total |-> 0, read |-> "False", backoff_factor |-> 0,
     status_forcelist |-> {}, allowed_methods |-> allowed_methods, history |-> 0]

\* session.get_adapter(url).max_retries after session.mount("https://", adapter)
max_retries_for_every_scheme(sch) == configured_retry

max_retries_for(sch) == IF sch = "https://" THEN configured_retry ELSE default_retry

is_method_retryable(r, method) == method \in r.allowed_methods

\* Retry.is_retry for a response without a Retry-After header.
is_retry_any_error_status(r, method, status) == status >= 400

is_retry(r, method, status) == is_method_retryable(r, method) /\ status \in r.status_forcelist

\* Retry.increment re-raises the error at once: a read error of a request
\* whose method may not be retried, or with read=False.
reraises(r, method, kind) ==
    kind = "read" /\ (r.read = "False" \/ ~is_method_retryable(r, method))

\* Retry.increment: one retry less, one more entry in the history.
increment(r) == [r EXCEPT !.total = @ - 1, !.history = @ + 1]

\* Retry.is_exhausted
is_exhausted(r) == r.total < 0

RECURSIVE Pow2(_)
Pow2(n) == IF n = 0 THEN 1 ELSE 2 * Pow2(n - 1)

\* Retry.get_backoff_time
get_backoff_time(r) ==
    IF r.history <= 1 THEN 0
    ELSE LET b == r.backoff_factor * Pow2(r.history - 1)
         IN IF b < BACKOFF_MAX THEN b ELSE BACKOFF_MAX

\* ------------------------------------------------------------- the state
VARIABLES
    track_id,          \* argument of send_track_data
    metadata_exists,   \* os.path.exists of <rec_start_format>_metadata.csv
    metadata,          \* the rows of that file
    crop_dir,          \* the names in <save_path>/crop/insect
    endpoint_scheme,   \* how CLASSIFICATION_ENDPOINT starts
    pc,                \* position in send_track_data
    listed,            \* os.listdir has been called
    payload,           \* start_date, end_date, duration_s
    track_files,       \* the names selected at line 52
    files,             \* the names whose handles were put in the files list
    open_handles,      \* the handles that are open
    retries,           \* the Retry object of the transmission under way
    attempts,          \* the outcome of every transmission of the POST so far
    waits,             \* the backoff slept before every retry so far
    response,          \* status of the response post_with_retry returned, 0: none
    exception,         \* the exception that left send_track_data, "None": none
    printed,           \* status shown by print(response), 0: nothing printed
    \* frame_norm (yolov5_preview.py)
    norm_pc,           \* "call" before frame_norm has run, "done" after
    norm_shape,        \* frame.shape[0] and frame.shape[1]: height, width
    norm_bbox,         \* the four relative coordinates, in eighths
    norm_out,          \* what frame_norm returned
    \* the preview loop (yolov5_preview.py)
    device_ok,         \* the OAK device is connected
    q_frame,           \* output queue "frame"
    q_nn,              \* output queue "nn"
    sent_frames,       \* frames the device has put on its stream so far
    sent_nn,           \* detection messages the device has put on its stream
    loop_pc,           \* position in the while loop
    start_time,        \* time.monotonic() taken before the loop
    now,               \* the monotonic clock
    counter,           \* counter
    frame,             \* frame of this iteration, 0: None
    nn_out,            \* nn_out of this iteration, 0: None
    dets,              \* dets, 0: the name is not bound yet
    fps,               \* fps as counter / elapsed, num = 0: not bound yet
    key,               \* what the last cv2.waitKey(1) returned
    iterations,        \* iterations completed (key poll done)
    frames_got,        \* messages taken from q_frame
    batches_got,       \* messages taken from q_nn
    dets_iteration,    \* the iteration in which dets was last assigned
    fps_time,          \* the clock when fps was last computed
    entry_time,        \* the clock when the loop was entered
    shown,             \* every cv2.imshow: frame, dets, fps, iteration
    crash              \* the exception that ended the script, "None": none

inputs == <<track_id, metadata_exists, metadata, crop_dir, endpoint_scheme>>

upload_vars ==
    <<track_id, metadata_exists, metadata, crop_dir, endpoint_scheme, pc, listed, payload,
      track_files, files, open_handles, retries, attempts, waits, response, exception,
      printed>>

norm_vars == <<norm_pc, norm_shape, norm_bbox, norm_out>>

preview_vars ==
    <<device_ok, q_frame, q_nn, sent_frames, sent_nn, loop_pc, start_time, now, counter,
      frame, nn_out, dets, fps, key, iterations, frames_got, batches_got, dets_iteration,
      fps_time, entry_time, shown, crash>>

vars == <<upload_vars, norm_vars, preview_vars>>

\* frame_norm has not been called.
NormIdle ==
    /\ norm_pc = "call"
    /\ norm_shape = <<320, 320>>
    /\ norm_bbox = <<0, 0, 0, 0>>
    /\ norm_out = <<>>

\* The preview script entering its loop at clock t: lines 100-105 are
\* done, nothing has been received.
PreviewAt(t) ==
    /\ device_ok = TRUE
    /\ q_frame = <<>>
    /\ q_nn = <<>>
    /\ sent_frames = 0
    /\ sent_nn = 0
    /\ loop_pc = "get_frame"
    /\ start_time = t
    /\ now = t
    /\ counter = 0
    /\ frame = 0
    /\ nn_out = 0
    /\ dets = 0
    /\ fps = [num |-> 0, den |-> 1]
    /\ key = "none"
    /\ iterations = 0
    /\ frames_got = 0
    /\ batches_got = 0
    /\ dets_iteration = 0
    /\ fps_time = t
    /\ entry_time = t
    /\ shown = <<>>
    /\ crash = "None"

PreviewIdle == PreviewAt(0)

Init ==
    /\ track_id \in TrackIds
    /\ metadata_exists \in BOOLEAN
    /\ metadata \in Tables
    /\ metadata_exists = FALSE => metadata = <<>>
    /\ crop_dir \in SUBSET FileNames
    /\ endpoint_scheme \in Schemes
    /\ pc = "start"
    /\ listed = FALSE
    /\ payload = NoPayload
    /\ track_files = {}
    /\ files = {}
    /\ open_handles = {}
    /\ retries = default_retry
    /\ attempts = <<>>
    /\ waits = <<>>
    /\ response = 0
    /\ exception = "None"
    /\ printed = 0
    /\ NormIdle
    /\ PreviewIdle

\* Lines 38-57: return early, fail on a timestamp, or build the payload
\* and select the files of the track.
Summarize ==
    /\ pc = "start"
    /\ LET r == summarize(track_id, metadata_exists, metadata, crop_dir)
       IN /\ listed' = r.listed
          /\ payload' = r.payload
          /\ track_files' = r.track_files
          /\ pc' = CASE r.outcome = "absent" -> "returned"
                     [] r.outcome = "ValueError" -> "raised"
                     [] OTHER -> "open"
          /\ exception' = IF r.outcome = "ValueError" THEN "ValueError" ELSE exception
    /\ UNCHANGED <<inputs, files, open_handles, retries, attempts, waits, response, printed>>
    /\ UNCHANGED <<norm_vars, preview_vars>>

\* Line 58, and lines 16-30 of post_with_retry: every selected file is
\* opened, then the session and its adapter are set up.
OpenFiles ==
    /\ pc = "open"
    /\ files' = track_files
    /\ open_handles' = track_files
    /\ retries' = max_retries_for(endpoint_scheme)
    /\ pc' = "post"
    /\ UNCHANGED <<inputs, listed, payload, track_files, attempts, waits, response,
                   exception, printed>>
    /\ UNCHANGED <<norm_vars, preview_vars>>

\* The exception leaves post_with_retry and send_track_data: nothing
\* catches it, and the traceback keeps the frame and its files list alive.
Raise(exc) ==
    /\ exception' = exc
    /\ pc' = "raised"
    /\ UNCHANGED <<retries, waits, response, open_handles>>

\* urlopen sleeps the backoff of the incremented Retry and sends again.
SleepAndRetry(r) ==
    /\ retries' = r
    /\ waits' = Append(waits, get_backoff_time(r))
    /\ UNCHANGED <<pc, response, exception, open_handles>>

\* Lines 31-33: one transmission of the POST inside session.post
\* (HTTPAdapter.send, urllib3's urlopen) and what urlopen does with it.
Attempt ==
    /\ pc = "post"
    /\ \E o \in Outcomes :
        /\ attempts' = Append(attempts, o)
        /\ IF o.kind = "response"
           THEN IF is_retry(retries, "POST", o.status)
                THEN IF is_exhausted(increment(retries))
                     THEN Raise("RetryError")
                     ELSE SleepAndRetry(increment(retries))
                ELSE /\ response' = o.status
                     /\ pc' = "print"
                     /\ UNCHANGED <<retries, waits, exception, open_handles>>
           ELSE IF reraises(retries, "POST", o.kind) \/ is_exhausted(increment(retries))
                THEN Raise("ConnectionError")
                ELSE SleepAndRetry(increment(retries))
    /\ UNCHANGED <<inputs, listed, payload, track_files, files, printed>>
    /\ UNCHANGED <<norm_vars, preview_vars>>

\* Line 61 and the return: the response is printed whatever its status.
\* Nothing closes the handles; once the files list is unreachable the
\* interpreter may or may not have finalised them by the time the caller
\* goes on.
PrintAndReturn ==
    /\ pc = "print"
    /\ printed' = response
    /\ pc' = "returned"
    /\ \E finalised \in BOOLEAN : open_handles' = IF finalised THEN {} ELSE open_handles
    /\ UNCHANGED <<inputs, listed, payload, track_files, files, retries, attempts, waits,
                   response, exception>>
    /\ UNCHANGED <<norm_vars, preview_vars>>

Next == Summarize \/ OpenFiles \/ Attempt \/ PrintAndReturn

Spec == Init /\ [][Next]_vars

\* send_track_data has not been called.
UploadIdle ==
    /\ track_id = 1
    /\ metadata_exists = FALSE
    /\ metadata = <<>>
    /\ crop_dir = {}
    /\ endpoint_scheme = "https://"
    /\ pc = "start"
    /\ listed = FALSE
    /\ payload = NoPayload
    /\ track_files = {}
    /\ files = {}
    /\ open_handles = {}
    /\ retries = default_retry
    /\ attempts = <<>>
    /\ waits = <<>>
    /\ response = 0
    /\ exception = "None"
    /\ printed = 0

\* ------------------------------------ frame_norm, yolov5_preview.py 90-94
\* Relative coordinates are counted in eighths (8 is 1.0), which binary
\* floating point holds exactly, as it does their products with a frame
\* dimension.
Coords == {-2, 0, 3, 4, 8, 11}

\* frame.shape[:2], height then width, of the frames handed to frame_norm.
Shapes == {<<320, 320>>, <<3, 4>>, <<5, 2>>}

\* np.clip(x, lo, hi)
np_clip(x, lo, hi) == IF x < lo THEN lo ELSE IF x > hi THEN hi ELSE x

\* astype(int) of n / d: the fraction is dropped, towards zero.
astype_int(n, d) == IF n >= 0 THEN n \div d ELSE 0 - ((0 - n) \div d)

\* norm_vals: frame.shape[0] everywhere, then frame.shape[1] at the even
\* Python indices 0, 2, ... (positions 1, 3, ... here).
norm_vals_swapped(shape, n) == [i \in 1..n |-> IF i % 2 = 1 THEN shape[1] ELSE shape[2]]

norm_vals(shape, n) == [i \in 1..n |-> IF i % 2 = 1 THEN shape[2] ELSE shape[1]]

frame_norm(shape, bbox) ==
    [i \in 1..Len(bbox) |->
        astype_int(np_clip(bbox[i], 0, 8) * norm_vals(shape, Len(bbox))[i], 8)]

NormInit ==
    /\ norm_pc = "call"
    /\ norm_shape \in Shapes
    /\ norm_bbox \in [1..4 -> Coords]
    /\ norm_out = <<>>
    /\ UploadIdle
    /\ PreviewIdle

\* bbox = frame_norm(frame, (xmin, ymin, xmax, ymax))
CallFrameNorm ==
    /\ norm_pc = "call"
    /\ norm_out' = frame_norm(norm_shape, norm_bbox)
    /\ norm_pc' = "done"
    /\ UNCHANGED <<norm_shape, norm_bbox, upload_vars, preview_vars>>

NormNext == CallFrameNorm

SpecNorm == NormInit /\ [][NormNext]_vars

\* ------------------------------ the preview loop, yolov5_preview.py 97-141
\* maxSize=4 of both output queues.
maxSize == 4

\* What cv2.waitKey(1) can return: the key q, another key, or no key (-1).
Keys == {"q", "other", "none"}

\* The clock readings at which the loop can be entered.
EntryTimes == {0, 5}

\* A queue made with blocking=False takes a message when it is full by
\* dropping its oldest one.
push(q, m) == IF Len(q) >= maxSize THEN Append(Tail(q), m) ELSE Append(q, m)

\* DataOutputQueue.get(): waits while the queue is empty, then takes the
\* oldest message. (tryGet would hand back None, 0 here, at once.)
q_tryGet(q) ==
    [blocks |-> FALSE,
     msg |-> IF q = <<>> THEN 0 ELSE Head(q),
     rest |-> IF q = <<>> THEN q ELSE Tail(q)]

q_get(q) ==
    [blocks |-> q = <<>>,
     msg |-> IF q = <<>> THEN 0 ELSE Head(q),
     rest |-> IF q = <<>> THEN q ELSE Tail(q)]

\* Lines 117-120: dets, counter and fps after a detection message.
on_batch_counting_double(nn, c, t, t0) ==
    [dets |-> nn, counter |-> c + 2, fps |-> [num |-> c + 2, den |-> t - t0]]

on_batch(nn, c, t, t0) ==
    [dets |-> nn, counter |-> c + 1, fps |-> [num |-> c + 1, den |-> t - t0]]

\* cv2.waitKey(1) == ord("q")
is_quit_on_any_key(k) == k # "none"

is_quit(k) == k = "q"

\* Where an exception raised by a queue leaves the script: nothing in the
\* loop catches it, so the with block and the script end.
on_stream_fault_absorbed == "poll"

on_stream_fault == "crashed"

PreviewInit ==
    /\ \E t \in EntryTimes : PreviewAt(t)
    /\ UploadIdle
    /\ NormIdle

Running == loop_pc \notin {"done", "crashed"}

\* The device puts the passthrough frame of an inference on stream "frame".
ProduceFrame ==
    /\ device_ok /\ Running
    /\ sent_frames < MaxSent
    /\ sent_frames' = sent_frames + 1
    /\ q_frame' = push(q_frame, sent_frames + 1)
    /\ UNCHANGED <<device_ok, q_nn, sent_nn, loop_pc, start_time, now, counter, frame,
                   nn_out, dets, fps, key, iterations, frames_got, batches_got,
                   dets_iteration, fps_time, entry_time, shown, crash>>
    /\ UNCHANGED <<upload_vars, norm_vars>>

\* The device puts the detections of an inference on stream "nn".
ProduceNN ==
    /\ device_ok /\ Running
    /\ sent_nn < MaxSent
    /\ sent_nn' = sent_nn + 1
    /\ q_nn' = push(q_nn, sent_nn + 1)
    /\ UNCHANGED <<device_ok, q_frame, sent_frames, loop_pc, start_time, now, counter,
                   frame, nn_out, dets, fps, key, iterations, frames_got, batches_got,
                   dets_iteration, fps_time, entry_time, shown, crash>>
    /\ UNCHANGED <<upload_vars, norm_vars>>

\* The device is unplugged or its connection breaks.
Disconnect ==
    /\ device_ok /\ Running
    /\ device_ok' = FALSE
    /\ UNCHANGED <<q_frame, q_nn, sent_frames, sent_nn, loop_pc, start_time, now, counter,
                   frame, nn_out, dets, fps, key, iterations, frames_got, batches_got,
                   dets_iteration, fps_time, entry_time, shown, crash>>
    /\ UNCHANGED <<upload_vars, norm_vars>>

\* An exception leaves a statement of the loop.
Throw(exc, to) ==
    /\ crash' = exc
    /\ loop_pc' = to
    /\ UNCHANGED <<device_ok, q_frame, q_nn, sent_frames, sent_nn, start_time, now,
                   counter, frame, nn_out, dets, fps, key, iterations, frames_got,
                   batches_got, dets_iteration, fps_time, entry_time, shown>>

\* Line 114: frame = q_frame.get().getCvFrame()
GetFrame ==
    /\ loop_pc = "get_frame"
    /\ iterations < MaxIter
    /\ IF ~device_ok
       THEN Throw("RuntimeError", on_stream_fault)
       ELSE LET r == q_get(q_frame)
            IN /\ ~r.blocks
               /\ IF r.msg = 0
                  THEN Throw("AttributeError", "crashed")
                  ELSE /\ frame' = r.msg
                       /\ q_frame' = r.rest
                       /\ frames_got' = frames_got + 1
                       /\ loop_pc' = "get_nn"
                       /\ UNCHANGED <<device_ok, q_nn, sent_frames, sent_nn, start_time,
                                      now, counter, nn_out, dets, fps, key, iterations,
                                      batches_got, dets_iteration, fps_time, entry_time,
                                      shown, crash>>
    /\ UNCHANGED <<upload_vars, norm_vars>>

\* Line 115: nn_out = q_nn.get(); the clock moves on while it waits.
GetDetections ==
    /\ loop_pc = "get_nn"
    /\ IF ~device_ok
       THEN Throw("RuntimeError", on_stream_fault)
       ELSE LET r == q_get(q_nn)
            IN /\ ~r.blocks
               /\ nn_out' = r.msg
               /\ q_nn' = r.rest
               /\ batches_got' = batches_got + (IF r.msg = 0 THEN 0 ELSE 1)
               /\ \E d \in 1..MaxTick : now' = now + d
               /\ loop_pc' = "process"
               /\ UNCHANGED <<device_ok, q_frame, sent_frames, sent_nn, start_time,
                              counter, frame, dets, fps, key, iterations, frames_got,
                              dets_iteration, fps_time, entry_time, shown, crash>>
    /\ UNCHANGED <<upload_vars, norm_vars>>

\* Lines 117-135: take over the detections, count, compute fps; draw the
\* detections and fps on the frame and show it. Reading dets or fps
\* before either was assigned is a NameError.
Process ==
    /\ loop_pc = "process"
    /\ LET b == IF nn_out # 0
                THEN on_batch(nn_out, counter, now, start_time)
                ELSE [dets |-> dets, counter |-> counter, fps |-> fps]
           assigned == IF nn_out # 0 THEN iterations + 1 ELSE dets_iteration
       IN IF frame # 0 /\ b.dets = 0
          THEN Throw("NameError", "crashed")
          ELSE /\ dets' = b.dets
               /\ counter' = b.counter
               /\ fps' = b.fps
               /\ dets_iteration' = assigned
               /\ fps_time' = IF nn_out # 0 THEN now ELSE fps_time
               /\ shown' = IF frame # 0
                           THEN Append(shown, [frame |-> frame, dets |-> b.dets,
                                               fps |-> b.fps,
                                               iteration |-> iterations + 1,
                                               dets_iteration |-> assigned])
                           ELSE shown
               /\ loop_pc' = "poll"
               /\ UNCHANGED <<device_ok, q_frame, q_nn, sent_frames, sent_nn, start_time,
                              now, frame, nn_out, key, iterations, frames_got,
                              batches_got, entry_time, crash>>
    /\ UNCHANGED <<upload_vars, norm_vars>>

\* Lines 140-141: if cv2.waitKey(1) == ord("q"): break
PollKey ==
    /\ loop_pc = "poll"
    /\ \E k \in Keys :
        /\ key' = k
        /\ loop_pc' = IF is_quit(k) THEN "done" ELSE "get_frame"
    /\ iterations' = iterations + 1
    /\ UNCHANGED <<device_ok, q_frame, q_nn, sent_frames, sent_nn, start_time, now,
                   counter, frame, nn_out, dets, fps, frames_got, batches_got,
                   dets_iteration, fps_time, entry_time, shown, crash>>
    /\ UNCHANGED <<upload_vars, norm_vars>>

PreviewNext ==
    \/ ProduceFrame
    \/ ProduceNN
    \/ Disconnect
    \/ GetFrame
    \/ GetDetections
    \/ Process
    \/ PollKey

SpecPreview == PreviewInit /\ [][PreviewNext]_vars

\* ------------------------------------------------------------ the claims
Resp(s) == [kind |-> "response", status |-> s]

\* The statuses and failures the upload is said to retry on.
Transient(o) == o.kind \in {"connect", "read"} \/ o.status \in {429, 500, 502, 503, 504}

\* post_with_retry has been called and has ended, with a response or an
\* exception.
PostEnded == attempts # <<>> /\ pc \in {"print", "returned", "raised"}

\* The files list has been built.
FilesOpened == pc \in {"post", "print"} \/ PostEnded

IsPrefix(a, b) == Len(a) <= Len(b) /\ \A i \in 1..Len(a) : a[i] = b[i]

RECURSIVE Sum(_)
Sum(q) == IF q = <<>> THEN 0 ELSE Head(q) + Sum(Tail(q))

\* C1: against an https endpoint that answers every POST with 500, the
\* upload ends after exactly 6 transmissions and hands back the last 500
\* response.
C1_SixAttemptsOnAlways500 ==
    (/\ endpoint_scheme = "https://"
     /\ PostEnded
     /\ \A i \in 1..Len(attempts) : attempts[i] = Resp(500))
    => (Len(attempts) = 6 /\ response = 500 /\ exception = "None")

\* C2: the POST is sent again after every response with status 429, 500,
\* 502, 503 or 504 and after every connection failure while fewer than 5
\* retries were used, is never sent again after any other outcome, and is
\* retried at most 5 times.
C2_RetriedExactlyOnTransientFailures ==
    endpoint_scheme = "https://" =>
        /\ Len(attempts) <= 6
        /\ \A i \in 1..Len(attempts) : i < Len(attempts) => Transient(attempts[i])
        /\ PostEnded =>
               \A i \in 1..Len(attempts) :
                   (Transient(attempts[i]) /\ i <= 5) => i < Len(attempts)

\* C3: against an https endpoint that answers 503, 503, 503 and then 200,
\* the upload makes exactly four transmissions and returns the 200.
C3_Three503Then200 ==
    (/\ endpoint_scheme = "https://"
     /\ PostEnded
     /\ IsPrefix(attempts, <<Resp(503), Resp(503), Resp(503), Resp(200)>>))
    => (attempts = <<Resp(503), Resp(503), Resp(503), Resp(200)>> /\ response = 200)

\* C4: when the first transmission is answered with a status that is not
\* retried (200, 401, 403, 404), it is the only one: no retry and no wait
\* follow and that response is handed to the caller.
C4_NonRetryableStatusSurfacedAtOnce ==
    (/\ attempts # <<>>
     /\ attempts[1].kind = "response"
     /\ attempts[1].status \notin {429, 500, 502, 503, 504})
    => (/\ Len(attempts) = 1
        /\ waits = <<>>
        /\ pc \in {"print", "returned"}
        /\ response = attempts[1].status
        /\ exception = "None")

C4_Witness ==
    /\ pc = "returned"
    /\ endpoint_scheme = "https://"
    /\ attempts = <<Resp(404)>>
    /\ printed = 404

\* C5: the wait before the k-th retry is 0.1 s * 2^(k-1), that is 1, 2, 4,
\* 8 and 16 tenths of a second, so that 503, 503, 503, 200 costs 7 tenths.
C5_WaitsDoubleFromOneTenth ==
    endpoint_scheme = "https://" =>
        /\ \A k \in 1..Len(waits) : waits[k] = Pow2(k - 1)
        /\ attempts = <<Resp(503), Resp(503), Resp(503), Resp(200)>> => Sum(waits) = 7

\* C6: once send_track_data has ended, by return or by exception, no
\* handle it opened is still open.
C6_HandlesClosedWhenCallEnds == pc \in {"returned", "raised"} => open_handles = {}

\* C7: no exception of the upload path leaves send_track_data: once the
\* POST has been tried (here against an https endpoint), the call ends by
\* returning, with the outcome printed.
C7_UploadFailureReturnsNormally ==
    (endpoint_scheme = "https://" /\ attempts # <<>>) =>
        /\ pc # "raised"
        /\ exception = "None"
        /\ pc = "returned" => printed = response

\* C8: without a metadata file, or without a row of the track in it,
\* send_track_data returns without error and without listing the crop
\* directory, opening a file or sending a POST; a payload is built only
\* when a row of the track exists.
C8_AbsentIsNoOp ==
    LET hasRow == metadata_exists
                  /\ \E i \in 1..Len(metadata) : metadata[i].track_ID = track_id
    IN /\ ~hasRow =>
           /\ pc \in {"start", "returned"}
           /\ ~listed
           /\ files = {} /\ open_handles = {}
           /\ attempts = <<>>
           /\ exception = "None"
           /\ ~payload.built
       /\ payload.built => hasRow

C8_Witness ==
    /\ pc = "returned"
    /\ metadata_exists
    /\ Len(metadata) = MaxRows
    /\ \A i \in 1..Len(metadata) : metadata[i].track_ID # track_id
    /\ crop_dir = FileNames

\* The token 'ID<t>' of track t, written out.
IdToken(t) == IF t = 1 THEN <<"I", "D", "1">> ELSE <<"I", "D", "1", "0">>

\* C9: a file of the crop directory is attached to the upload of track t
\* exactly if one of the underscore separated tokens of its name is 'ID'
\* followed by t; img_ID10_001.jpg is never attached for track 1.
C9_ExactTokenMatch ==
    FilesOpened =>
        /\ files \subseteq crop_dir
        /\ \A t \in NameTokens :
               Join(t) \in files <=>
                   (Join(t) \in crop_dir /\ \E i \in 1..Len(t) : t[i] = IdToken(track_id))
        /\ track_id = 1 =>
               Join(<< <<"i", "m", "g">>, <<"I", "D", "1", "0">>,
                       <<"0", "0", "1", ".", "j", "p", "g">> >>) \notin files

C9_Witness ==
    /\ pc = "returned"
    /\ attempts # <<>>
    /\ track_id = 1
    /\ crop_dir = FileNames
    /\ Cardinality(files) = 1

\* Chronological order of two datetimes, field by field.
RECURSIVE TupleLE(_, _)
TupleLE(a, b) ==
    IF a = <<>> THEN TRUE
    ELSE IF Head(a) # Head(b) THEN Head(a) < Head(b)
    ELSE TupleLE(Tail(a), Tail(b))

ChronLE(a, b) ==
    TupleLE(<<a.year, a.month, a.day, a.hour, a.minute, a.second, a.microsecond>>,
            <<b.year, b.month, b.day, b.hour, b.minute, b.second, b.microsecond>>)

\* Whole seconds from 2023-12-31T00:00:00 to the second of d, for the
\* days of Instants.
SecondOf(d) ==
    (IF d.year = 2023 THEN 0 ELSE 86400) + d.hour * 3600 + d.minute * 60 + d.second

\* floor of (b - a) in seconds, for a not after b.
FloorSeconds(a, b) ==
    SecondOf(b) - SecondOf(a) - (IF b.microsecond < a.microsecond THEN 1 ELSE 0)

\* The timestamp each instant is written as.
StampOf == [d \in Instants |-> strftime(d)]

\* The instants of the rows of the track.
TrackInstants ==
    {d \in Instants :
        \E i \in 1..Len(metadata) :
            metadata[i].track_ID = track_id /\ metadata[i].timestamp = StampOf[d]}

\* C10: start_date is the earliest and end_date the latest instant of the
\* rows of the track, and duration_s is the floor of their distance in
\* seconds: never negative, 0 when they are equal, 5 for 10:00:00.000000
\* and 10:00:05.500000.
C10_EarliestLatestFloor ==
    payload.built =>
        LET T == TrackInstants
        IN /\ payload.start_date \in T
           /\ payload.end_date \in T
           /\ \A d \in T : ChronLE(payload.start_date, d) /\ ChronLE(d, payload.end_date)
           /\ payload.duration_s = FloorSeconds(payload.start_date, payload.end_date)
           /\ payload.duration_s >= 0
           /\ payload.start_date = payload.end_date => payload.duration_s = 0
           /\ (/\ payload.start_date = dt(2024, 1, 1, 10, 0, 0, 0)
               /\ payload.end_date = dt(2024, 1, 1, 10, 0, 5, 500000))
              => payload.duration_s = 5

C10_Witness ==
    /\ pc = "returned"
    /\ payload.built
    /\ payload.start_date = dt(2024, 1, 1, 10, 0, 0, 0)
    /\ payload.end_date = dt(2024, 1, 1, 10, 0, 5, 500000)
    /\ payload.duration_s = 5
    /\ printed = 200

\* The timestamps that conform to YYYY-MM-DDTHH:MM:SS.ffffff.
WellFormed == {StampOf[d] : d \in Instants}

\* The timestamp strings of the rows of the track.
TrackStamps ==
    {metadata[i].timestamp : i \in {j \in 1..Len(metadata) : metadata[j].track_ID = track_id}}

C18_RetryPolicyOnlyOnHttps ==
    (pc \in {"post", "print"} \/ PostEnded) =>
        /\ endpoint_scheme = "http://" =>
               /\ Len(attempts) <= 1
               /\ waits = <<>>
               /\ PostEnded => Len(attempts) = 1
               /\ retries.status_forcelist = {}
        /\ endpoint_scheme = "https://" =>
               /\ retries.total + Len(waits) = 5
               /\ retries.backoff_factor = 1
               /\ retries.status_forcelist = {429, 500, 502, 503, 504}
               /\ (pc = "raised" /\ attempts[Len(attempts)].kind = "connect")
                      => Len(attempts) = 6

C18_Witness ==
    /\ pc = "returned"
    /\ endpoint_scheme = "http://"
    /\ attempts = <<Resp(503)>>
    /\ printed = 503

\* x clamped to [0, 1], in eighths.
Clamped(x) == IF x < 0 THEN 0 ELSE IF x > 8 THEN 8 ELSE x

\* C12: frame_norm returns four integers; those at indices 0 and 2 are the
\* component clamped to [0, 1] times the width, those at indices 1 and 3
\* the clamped component times the height, the fraction dropped; every x
\* lies in [0, W] and every y in [0, H], whatever the components.
C12_ClampedScaledTruncated ==
    norm_pc = "done" =>
        /\ Len(norm_out) = 4
        /\ \A i \in 1..4 :
               LET dim == IF i \in {1, 3} THEN norm_shape[2] ELSE norm_shape[1]
               IN /\ norm_out[i] \in 0..dim
                  /\ 8 * norm_out[i] <= Clamped(norm_bbox[i]) * dim
                  /\ Clamped(norm_bbox[i]) * dim < 8 * (norm_out[i] + 1)

\* (-0.25, 0.5, 1.375, 1.0) on a frame 4 wide and 3 high gives (0, 1, 4, 3).
C12_Witness ==
    /\ norm_pc = "done"
    /\ norm_shape = <<3, 4>>
    /\ norm_bbox = <<-2, 4, 11, 8>>
    /\ norm_out = <<0, 1, 4, 3>>

\* C13: queue retrieval in the preview loop never blocks: with the device
\* connected and the frame queue empty at line 114, or the detection queue
\* empty at line 115, the retrieval can still complete (returning "nothing
\* available"), so the iteration goes on to the key poll.
C13_RetrievalNeverBlocks ==
    (device_ok /\ crash = "None" /\ iterations < MaxIter) =>
        /\ (loop_pc = "get_frame" /\ q_frame = <<>>) => ENABLED GetFrame
        /\ (loop_pc = "get_nn" /\ q_nn = <<>>) => ENABLED GetDetections

\* C14: frames and detection batches are not retrieved in lockstep: when a
\* frame was retrieved and no new batch has arrived, the iteration goes on
\* without a new batch and renders the frame with the batch of an earlier
\* iteration, left unchanged.
C14_EarlierBatchReused ==
    (device_ok /\ loop_pc = "get_nn" /\ frame # 0 /\ q_nn = <<>> /\ dets # 0) =>
        ENABLED (GetDetections /\ nn_out' = 0 /\ dets' = dets)

\* C15: counter starts at 0 and grows by exactly 1 per detection batch
\* received and never otherwise, so after N batches counter = N; the fps
\* computed on a batch is counter over the time elapsed since the start
\* timestamp, which is taken once before the loop and never changes.
C15_CounterAndFps ==
    /\ [](counter = batches_got - (IF loop_pc = "process" THEN 1 ELSE 0))
    /\ [](start_time = entry_time)
    /\ [](counter >= 1 => fps = [num |-> counter, den |-> fps_time - entry_time])
    /\ [][/\ counter' \in {counter, counter + 1}
          /\ counter' = counter + 1 => (loop_pc = "process" /\ nn_out # 0)
          /\ start_time' = start_time]_vars

C15_Witness ==
    /\ counter = 3
    /\ batches_got = 3
    /\ start_time = 5
    /\ now = 9
    /\ fps = [num |-> 3, den |-> 4]

\* C16: without a stream fault the loop is left only by the quit key: it is
\* left exactly in the iteration whose key poll returns q, and for another
\* key or no key the next iteration starts, whatever has arrived.
C16_LeftOnlyByQuitKey ==
    /\ [](loop_pc = "done" => (key = "q" /\ crash = "None"))
    /\ [][(loop_pc # "done" /\ loop_pc' = "done") => (loop_pc = "poll" /\ key' = "q")]_vars
    /\ [][(loop_pc = "poll" /\ loop_pc' # "poll") =>
             IF key' = "q" THEN loop_pc' = "done" ELSE loop_pc' = "get_frame"]_vars

C16_Witness ==
    /\ loop_pc = "done"
    /\ key = "q"
    /\ iterations = 3
    /\ Len(shown) = 3
    /\ device_ok

\* C17: a stream fault is never absorbed: a retrieval made after the device
\* was lost ends the loop with the error, after which nothing more is
\* iterated, rendered or shown, and the device is never connected again.
C17_StreamFaultPropagates ==
    /\ [][(~device_ok /\ loop_pc \in {"get_frame", "get_nn"} /\ loop_pc' # loop_pc) =>
             (loop_pc' = "crashed" /\ crash' = "RuntimeError")]_vars
    /\ [][crash # "None" =>
             UNCHANGED <<loop_pc, crash, shown, iterations, frames_got, batches_got, counter>>]_vars
    /\ [][~device_ok => ~device_ok']_vars
    /\ [](crash # "None" => loop_pc = "crashed")

C17_Witness ==
    /\ loop_pc = "crashed"
    /\ crash = "RuntimeError"
    /\ ~device_ok
    /\ iterations = 1
    /\ Len(shown) = 1
    /\ frames_got = 2

\* C19: at the end of every iteration the frames retrieved, the batches
\* retrieved and counter all equal the number of completed iterations; every
\* frame shown was rendered with a batch retrieved in the same iteration,
\* and dets and fps are never read before they were assigned.
C19_Lockstep ==
    /\ loop_pc \in {"get_frame", "done"} =>
          /\ frames_got = iterations
          /\ batches_got = iterations
          /\ counter = iterations
          /\ Len(shown) = iterations
    /\ \A i \in 1..Len(shown) :
          /\ shown[i].dets # 0
          /\ shown[i].dets_iteration = shown[i].iteration
          /\ shown[i].iteration = i
    /\ crash # "NameError"

C19_Witness ==
    /\ loop_pc = "get_frame"
    /\ iterations = 3
    /\ frames_got = 3
    /\ batches_got = 3
    /\ counter = 3
    /\ Len(shown) = 3
    /\ shown[3].frame # shown[3].dets

====
